---- MODULE Spec2Model ----
(***************************************************************************)
(* The task store of packages/backend/convex/tasks.ts: the "tasks" table   *)
(* of convex/schema.ts and the mutations createTask, updateTask,           *)
(* deleteTask, hardDeleteTask and toggleTaskComplete, each one atomic      *)
(* transaction over the table, and the queries. Under SpecConcurrent the   *)
(* mutations of one task run concurrently, each reading the document and   *)
(* writing it in two steps.                                                *)
(*                                                                         *)
(* An optional value (v.optional, a field that may be undefined) is a set  *)
(* of at most one element: None is undefined, Some(x) is the value x.      *)
(***************************************************************************)
EXTENDS Integers, Sequences, FiniteSets, TLC

VARIABLES
    tasks,      \* the table: document id -> document, for the stored ids
    nextId,     \* the id the next ctx.db.insert assigns (ids are never reused)
    now,        \* the clock read by Date.now()
    last,       \* the last call: what was called, with what, on which table,
                \* and what came back
    steps,      \* the number of steps taken, where a run is cut to MaxSteps
    txns,       \* the mutations that run concurrently: the table they started
                \* from, the calls, and the order in which they committed
    dialog,     \* the state of CreateTaskDialog, and the toast shown last
    mutation    \* the createTask call the dialog issued last: the title as
                \* typed, the arguments sent, and whether it has settled

vars == <<tasks, nextId, now, last, steps, txns, dialog, mutation>>

----------------------------------------------------------------------------
(* Bounds *)

MaxTasks == 2       \* documents ever inserted
MaxTime == 2        \* the clock runs 1..MaxTime
MaxTitleLen == 2    \* characters in a title argument
MaxSteps == 3       \* steps in a run of SpecFields
MaxCalls == 2       \* mutations that run concurrently

----------------------------------------------------------------------------
(* Optional values *)

None == {}
Some(x) == {x}
Get(o) == CHOOSE x \in o : TRUE
Opt(S) == {None} \cup {Some(x) : x \in S}

----------------------------------------------------------------------------
(* String.prototype.trim, on a title as a sequence of characters *)

Chars == {" ", "a"}
Whitespace == {" "}

RECURSIVE TrimStart(_)
TrimStart(s) ==
    IF s # <<>> /\ Head(s) \in Whitespace THEN TrimStart(Tail(s)) ELSE s

RECURSIVE TrimEnd(_)
TrimEnd(s) ==
    IF s # <<>> /\ s[Len(s)] \in Whitespace
    THEN TrimEnd(SubSeq(s, 1, Len(s) - 1))
    ELSE s

Trim(s) == TrimEnd(TrimStart(s))

----------------------------------------------------------------------------
(* The schema and the argument validators *)

Statuses == {"todo", "in_progress", "completed", "archived"}
Priorities == {"low", "medium", "high"}

SeqsUpTo(S, n) == UNION {[1..k -> S] : k \in 0..n}

Titles == SeqsUpTo(Chars, MaxTitleLen)
Descriptions == {"d1", "d2"}
DueDates == 1..MaxTime
TagLists == {<<"t1">>, <<"t2">>}
Ids == 1..MaxTasks

\* users is a placeholder table that is commented out: no users id exists.
UserIds == {}

CreateArgs ==
    [title : Titles, description : Opt(Descriptions), status : Opt(Statuses),
     priority : Opt(Priorities), dueDate : Opt(DueDates), userId : Opt(UserIds),
     tags : Opt(TagLists)]

UpdateArgs ==
    [title : Opt(Titles), description : Opt(Descriptions), status : Opt(Statuses),
     priority : Opt(Priorities), dueDate : Opt(DueDates), tags : Opt(TagLists)]

NoArgs == [title |-> None, description |-> None, status |-> None,
           priority |-> None, dueDate |-> None, tags |-> None]

----------------------------------------------------------------------------
(* ctx.db *)

Exists(id) == id \in DOMAIN tasks

\* ctx.db.get on a table: the document, or null
DbGet(table, id) == IF id \in DOMAIN table THEN Some(table[id]) ELSE None

\* A patch: for each field None when the key is not in the object, Some(v) when
\* it is, v being the value to store (None for undefined, which unsets the field).
NoPatch == [title |-> None, description |-> None, status |-> None,
            priority |-> None, dueDate |-> None, tags |-> None,
            completedAt |-> None]

Patched(doc, data) ==
    [doc EXCEPT
        !.title = IF data.title = None THEN @ ELSE Get(data.title),
        !.description = IF data.description = None THEN @ ELSE Get(data.description),
        !.status = IF data.status = None THEN @ ELSE Get(data.status),
        !.priority = IF data.priority = None THEN @ ELSE Get(data.priority),
        !.dueDate = IF data.dueDate = None THEN @ ELSE Get(data.dueDate),
        !.tags = IF data.tags = None THEN @ ELSE Get(data.tags),
        !.completedAt = IF data.completedAt = None THEN @ ELSE Get(data.completedAt)]

DbInsert(doc) == tasks @@ (nextId :> doc)
DbPatch(id, data) == [tasks EXCEPT ![id] = Patched(@, data)]
DbDelete(id) == [i \in DOMAIN tasks \ {id} |-> tasks[i]]

----------------------------------------------------------------------------
(* The errors the handlers throw *)

NoError == "none"
ValidationError == "Task title cannot be empty"
NotFoundError == "Task not found"

\* What a handler returns when it returns no document
Success == [success |-> TRUE]

\* before is the table the call found; result is what the call returned, None
\* when it returned null or threw.
Call(op, id, args, error, result) ==
    [op |-> op, id |-> id, args |-> args, before |-> tasks, error |-> error,
     result |-> result]

----------------------------------------------------------------------------
(* createTask *)

\* createTask as it would be if it stored the trimmed title.
NewTask_Trimmed(args, t) ==
    [title |-> Trim(args.title),
     description |-> args.description,
     status |-> IF args.status = None THEN "todo" ELSE Get(args.status),
     priority |-> IF args.priority = None THEN "medium" ELSE Get(args.priority),
     dueDate |-> args.dueDate,
     userId |-> args.userId,
     tags |-> args.tags,
     completedAt |-> None,
     creationTime |-> t]

\* createTask as it would be if it stamped a task created completed.
NewTask_StampsCompleted(args, t) ==
    [title |-> args.title,
     description |-> args.description,
     status |-> IF args.status = None THEN "todo" ELSE Get(args.status),
     priority |-> IF args.priority = None THEN "medium" ELSE Get(args.priority),
     dueDate |-> args.dueDate,
     userId |-> args.userId,
     tags |-> args.tags,
     completedAt |-> IF args.status = Some("completed") THEN Some(t) ELSE None,
     creationTime |-> t]

NewTask(args, t) ==
    [title |-> args.title,
     description |-> args.description,
     status |-> IF args.status = None THEN "todo" ELSE Get(args.status),
     priority |-> IF args.priority = None THEN "medium" ELSE Get(args.priority),
     dueDate |-> args.dueDate,
     userId |-> args.userId,
     tags |-> args.tags,
     completedAt |-> None,
     creationTime |-> t]

\* The validation as it would be if it tested the title without trimming it.
TitleRejected_NoTrim(title) == Len(title) = 0

TitleRejected(title) == Len(Trim(title)) = 0

\* createTask, a call that stores a document being taken while the ids given
\* out are fewer than max
createTaskUpTo(args, max) ==
    /\ IF TitleRejected(args.title)
       THEN /\ last' = Call("createTask", 0, args, ValidationError, None)
            /\ UNCHANGED <<tasks, nextId>>
       ELSE /\ nextId <= max
            /\ tasks' = DbInsert(NewTask(args, now))
            /\ nextId' = nextId + 1
            /\ last' = Call("createTask", nextId, args, NoError, DbGet(tasks', nextId))
    /\ UNCHANGED now

createTask(args) == createTaskUpTo(args, MaxTasks)

----------------------------------------------------------------------------
(* updateTask *)

\* The spread as it would be if it wrote description whether the call carries
\* it or not.
Spread_WritesDescription(updates) ==
    [NoPatch EXCEPT
        !.title = updates.title,
        !.description = Some(updates.description),
        !.status = updates.status,
        !.priority = updates.priority,
        !.dueDate = IF updates.dueDate = None THEN None ELSE Some(updates.dueDate),
        !.tags = IF updates.tags = None THEN None ELSE Some(updates.tags)]

\* The spread as it would be if a call that carries no priority wrote the
\* default one.
Spread_ResetsPriority(updates) ==
    [NoPatch EXCEPT
        !.title = updates.title,
        !.description = IF updates.description = None THEN None
                        ELSE Some(updates.description),
        !.status = updates.status,
        !.priority = IF updates.priority = None THEN Some("medium")
                     ELSE updates.priority,
        !.dueDate = IF updates.dueDate = None THEN None ELSE Some(updates.dueDate),
        !.tags = IF updates.tags = None THEN None ELSE Some(updates.tags)]

\* { ...updates }: the keys the call carries, with their values
Spread(updates) ==
    [NoPatch EXCEPT
        !.title = updates.title,
        !.description = IF updates.description = None THEN None
                        ELSE Some(updates.description),
        !.status = updates.status,
        !.priority = updates.priority,
        !.dueDate = IF updates.dueDate = None THEN None ELSE Some(updates.dueDate),
        !.tags = IF updates.tags = None THEN None ELSE Some(updates.tags)]

\* The status transition as it would be without the test of the prior status.
UpdateData_Restamps(existingTask, updates, t) ==
    IF updates.status = Some("completed")
    THEN [Spread(updates) EXCEPT !.completedAt = Some(Some(t))]
    ELSE IF updates.status # None /\ updates.status # Some("completed")
         THEN [Spread(updates) EXCEPT !.completedAt = Some(None)]
         ELSE Spread(updates)

\* The status transition as it would be without its else branch.
UpdateData_KeepsCompletedAt(existingTask, updates, t) ==
    IF updates.status = Some("completed") /\ existingTask.status # "completed"
    THEN [Spread(updates) EXCEPT !.completedAt = Some(Some(t))]
    ELSE Spread(updates)

\* The status transition as it would be if it cleared completedAt on leaving
\* completed only.
UpdateData_ClearsFromCompleted(existingTask, updates, t) ==
    IF updates.status = Some("completed") /\ existingTask.status # "completed"
    THEN [Spread(updates) EXCEPT !.completedAt = Some(Some(t))]
    ELSE IF /\ updates.status # None /\ updates.status # Some("completed")
            /\ existingTask.status = "completed"
         THEN [Spread(updates) EXCEPT !.completedAt = Some(None)]
         ELSE Spread(updates)

UpdateData(existingTask, updates, t) ==
    IF updates.status = Some("completed") /\ existingTask.status # "completed"
    THEN [Spread(updates) EXCEPT !.completedAt = Some(Some(t))]
    ELSE IF updates.status # None /\ updates.status # Some("completed")
         THEN [Spread(updates) EXCEPT !.completedAt = Some(None)]
         ELSE Spread(updates)

\* updateTask as it would be if an archived task could not be updated.
updateTask_ArchivedFinal(id, updates) ==
    /\ IF ~Exists(id) \/ tasks[id].status = "archived"
       THEN /\ last' = Call("updateTask", id, updates, NotFoundError, None)
            /\ UNCHANGED tasks
       ELSE /\ tasks' = DbPatch(id, UpdateData(tasks[id], updates, now))
            /\ last' = Call("updateTask", id, updates, NoError, DbGet(tasks', id))
    /\ UNCHANGED <<nextId, now>>

updateTask(id, updates) ==
    /\ IF ~Exists(id)
       THEN /\ last' = Call("updateTask", id, updates, NotFoundError, None)
            /\ UNCHANGED tasks
       ELSE /\ tasks' = DbPatch(id, UpdateData(tasks[id], updates, now))
            /\ last' = Call("updateTask", id, updates, NoError, DbGet(tasks', id))
    /\ UNCHANGED <<nextId, now>>

----------------------------------------------------------------------------
(* deleteTask: the soft delete *)

\* The soft delete as it would be if it cleared completedAt as updateTask does.
ArchiveData_ClearsCompletedAt ==
    [NoPatch EXCEPT !.status = Some("archived"), !.completedAt = Some(None)]

ArchiveData == [NoPatch EXCEPT !.status = Some("archived")]

\* deleteTask as it would be if it removed the document.
deleteTask_Removes(id) ==
    /\ IF ~Exists(id)
       THEN /\ last' = Call("deleteTask", id, NoArgs, NotFoundError, None)
            /\ UNCHANGED tasks
       ELSE /\ tasks' = DbDelete(id)
            /\ last' = Call("deleteTask", id, NoArgs, NoError, Some(Success))
    /\ UNCHANGED <<nextId, now>>

deleteTask(id) ==
    /\ IF ~Exists(id)
       THEN /\ last' = Call("deleteTask", id, NoArgs, NotFoundError, None)
            /\ UNCHANGED tasks
       ELSE /\ tasks' = DbPatch(id, ArchiveData)
            /\ last' = Call("deleteTask", id, NoArgs, NoError, Some(Success))
    /\ UNCHANGED <<nextId, now>>

----------------------------------------------------------------------------
(* hardDeleteTask: the handler makes no test of its own that the document   *)
(* exists.                                                                 *)

\* What ctx.db.delete answers for an id: the removal of a document that is not
\* stored is not an error.
DbDeleteError(id) == NoError

\* hardDeleteTask as it would be with the test the other mutations make.
hardDeleteTask_Checks(id) ==
    /\ IF ~Exists(id)
       THEN /\ last' = Call("hardDeleteTask", id, NoArgs, NotFoundError, None)
            /\ UNCHANGED tasks
       ELSE /\ tasks' = DbDelete(id)
            /\ last' = Call("hardDeleteTask", id, NoArgs, NoError, Some(Success))
    /\ UNCHANGED <<nextId, now>>

hardDeleteTask(id) ==
    /\ IF DbDeleteError(id) # NoError
       THEN /\ last' = Call("hardDeleteTask", id, NoArgs, DbDeleteError(id), None)
            /\ UNCHANGED tasks
       ELSE /\ tasks' = DbDelete(id)
            /\ last' = Call("hardDeleteTask", id, NoArgs, NoError, Some(Success))
    /\ UNCHANGED <<nextId, now>>

----------------------------------------------------------------------------
(* toggleTaskComplete *)

\* The toggle as it would be if only a todo task became completed.
ToggleData_FromTodoOnly(task, t) ==
    LET newStatus == IF task.status = "todo" THEN "completed" ELSE "todo"
        completedAt == IF newStatus = "completed" THEN Some(t) ELSE None
    IN  [NoPatch EXCEPT !.status = Some(newStatus),
                        !.completedAt = Some(completedAt)]

\* The toggle as it would be if it left completedAt in place on the way back.
ToggleData_KeepsCompletedAt(task, t) ==
    LET newStatus == IF task.status = "completed" THEN "todo" ELSE "completed"
    IN  IF newStatus = "completed"
        THEN [NoPatch EXCEPT !.status = Some(newStatus),
                             !.completedAt = Some(Some(t))]
        ELSE [NoPatch EXCEPT !.status = Some(newStatus)]

ToggleData(task, t) ==
    LET newStatus == IF task.status = "completed" THEN "todo" ELSE "completed"
        completedAt == IF newStatus = "completed" THEN Some(t) ELSE None
    IN  [NoPatch EXCEPT !.status = Some(newStatus),
                        !.completedAt = Some(completedAt)]

\* toggleTaskComplete as it would be without the test of the document read.
toggleTaskComplete_NoCheck(id) ==
    /\ tasks' = IF Exists(id) THEN DbPatch(id, ToggleData(tasks[id], now)) ELSE tasks
    /\ last' = Call("toggleTaskComplete", id, NoArgs, NoError, DbGet(tasks', id))
    /\ UNCHANGED <<nextId, now>>

toggleTaskComplete(id) ==
    /\ IF ~Exists(id)
       THEN /\ last' = Call("toggleTaskComplete", id, NoArgs, NotFoundError, None)
            /\ UNCHANGED tasks
       ELSE /\ tasks' = DbPatch(id, ToggleData(tasks[id], now))
            /\ last' = Call("toggleTaskComplete", id, NoArgs, NoError, DbGet(tasks', id))
    /\ UNCHANGED <<nextId, now>>

----------------------------------------------------------------------------
(* The queries: they read the table and change nothing *)

Read(op, id, args, result) ==
    /\ last' = Call(op, id, args, NoError, result)
    /\ UNCHANGED <<tasks, nextId, now>>

\* getTask as it would be if it threw as the mutations do.
getTask_Throws(id) ==
    /\ last' = IF Exists(id)
               THEN Call("getTask", id, NoArgs, NoError, DbGet(tasks, id))
               ELSE Call("getTask", id, NoArgs, NotFoundError, None)
    /\ UNCHANGED <<tasks, nextId, now>>

getTask(id) == Read("getTask", id, NoArgs, DbGet(tasks, id))

\* A set as the sequence that a strict total order makes of it, a sequence
\* backwards, and the first n elements of a sequence.
Ordered(S, Less(_, _)) ==
    LET place == {<<1 + Cardinality({y \in S : Less(y, x)}), x>> : x \in S}
    IN  [k \in 1..Cardinality(S) |-> (CHOOSE p \in place : p[1] = k)[2]]

Reverse(seq) == [k \in 1..Len(seq) |-> seq[Len(seq) + 1 - k]]

Take(seq, n) == SubSeq(seq, 1, IF Len(seq) < n THEN Len(seq) ELSE n)

\* Every index ends with _creationTime and _id. A scan lists the documents by
\* _id, their fields being those of the table.
CreationLess(table, i, j) ==
    \/ table[i].creationTime < table[j].creationTime
    \/ table[i].creationTime = table[j].creationTime /\ i < j

\* ctx.db.query("tasks"), in ascending order
ByCreation(table) ==
    Ordered(DOMAIN table, LAMBDA i, j : CreationLess(table, i, j))

\* withIndex("by_status", q.eq("status", status)), in ascending order
ByStatus(table, status) ==
    Ordered({i \in DOMAIN table : table[i].status = status},
            LAMBDA i, j : CreationLess(table, i, j))

\* withIndex("by_priority", q.eq("priority", priority)), in ascending order
ByPriority(table, priority) ==
    Ordered({i \in DOMAIN table : table[i].priority = priority},
            LAMBDA i, j : CreationLess(table, i, j))

\* The order of the status strings, and undefined before every number
StatusRank(status) ==
    CASE status = "archived" -> 1
      [] status = "completed" -> 2
      [] status = "in_progress" -> 3
      [] status = "todo" -> 4

DueLess(a, b) ==
    \/ a = None /\ b # None
    \/ a # None /\ b # None /\ Get(a) < Get(b)

\* withIndex("by_status_and_due_date"), in ascending order
ByStatusAndDueDate(table) ==
    Ordered(DOMAIN table,
            LAMBDA i, j :
                \/ StatusRank(table[i].status) < StatusRank(table[j].status)
                \/ /\ table[i].status = table[j].status
                   /\ \/ DueLess(table[i].dueDate, table[j].dueDate)
                      \/ /\ table[i].dueDate = table[j].dueDate
                         /\ CreationLess(table, i, j))

AllTasksLimit == 100
StatusLimit == 50
UpcomingLimit == 50
StatsLimit == 1000
PriorityLimit == 50

\* getAllTasks as it would be without order("desc").
AllTasks_Ascending(table) == Take(ByCreation(table), AllTasksLimit)

\* getAllTasks
AllTasks(table) == Take(Reverse(ByCreation(table)), AllTasksLimit)

getAllTasks == Read("getAllTasks", 0, NoArgs, Some(AllTasks(tasks)))

\* getTasksByPriority as it would be if it read the table and not the index.
TasksByPriority_NoIndex(table, priority) ==
    Take(Reverse(ByCreation(table)), PriorityLimit)

\* getTasksByPriority
TasksByPriority(table, priority) ==
    Take(Reverse(ByPriority(table, priority)), PriorityLimit)

getTasksByPriority(priority) ==
    Read("getTasksByPriority", 0, [priority |-> priority],
         Some(TasksByPriority(tasks, priority)))

\* The query of getTasksByStatus as it would be without order("desc").
StatusScan_Ascending(table, status) == ByStatus(table, status)

\* withIndex("by_status", q.eq("status", status)).order("desc")
StatusScan(table, status) == Reverse(ByStatus(table, status))

\* paginate: the documents that follow the cursor in the order of the query,
\* numItems of them at most, with the cursor that follows the last of them. A
\* cursor is the place in the index of the last document of a page.
CursorOf(table, i) == <<table[i].creationTime, i>>

FollowsDesc(table, cursor, i) ==
    \/ table[i].creationTime < cursor[1]
    \/ table[i].creationTime = cursor[1] /\ i < cursor[2]

Paginate(table, scan, opts) ==
    LET rest == IF opts.cursor = None THEN scan
                ELSE SelectSeq(scan,
                               LAMBDA i : FollowsDesc(table, Get(opts.cursor), i))
        page == Take(rest, opts.numItems)
    IN  [page |-> page,
         isDone |-> Len(rest) <= opts.numItems,
         continueCursor |-> IF page = <<>> THEN opts.cursor
                            ELSE Some(CursorOf(table, page[Len(page)]))]

\* getTasksByStatus
TasksByStatus(table, status, paginationOpts) ==
    IF paginationOpts # None
    THEN Paginate(table, StatusScan(table, status), Get(paginationOpts))
    ELSE Take(StatusScan(table, status), StatusLimit)

getTasksByStatus(status, paginationOpts) ==
    Read("getTasksByStatus", 0,
         [status |-> status, paginationOpts |-> paginationOpts],
         Some(TasksByStatus(tasks, status, paginationOpts)))

\* The cursors a caller holds for a status: null, and the one the call before
\* returned for that status.
Cursors(status) ==
    {None} \cup
    IF /\ last.op = "getTasksByStatus"
       /\ last.args.status = status
       /\ last.args.paginationOpts # None
    THEN {Get(last.result).continueCursor}
    ELSE {}

PaginationOpts(status, sizes) == Opt([numItems : sizes, cursor : Cursors(status)])

\* Array.prototype.sort with the comparator (a.dueDate || 0) - (b.dueDate || 0):
\* ascending, elements that compare equal keeping their order.
DueOrZero(doc) == IF doc.dueDate = None THEN 0 ELSE Get(doc.dueDate)

SortByDue(table, seq) ==
    LET order == Ordered(1..Len(seq),
                         LAMBDA k, l :
                             \/ DueOrZero(table[seq[k]]) < DueOrZero(table[seq[l]])
                             \/ /\ DueOrZero(table[seq[k]]) = DueOrZero(table[seq[l]])
                                /\ k < l)
    IN  [k \in 1..Len(seq) |-> seq[order[k]]]

\* task.dueDate && task.dueDate >= now as it would be with > for >=.
IsDue_Strictly(doc, t) ==
    doc.dueDate # None /\ Get(doc.dueDate) # 0 /\ Get(doc.dueDate) > t

\* task.dueDate && task.dueDate >= now
IsDue(doc, t) ==
    doc.dueDate # None /\ Get(doc.dueDate) # 0 /\ Get(doc.dueDate) >= t

\* The filter of the scan as it would be if it kept the todo tasks only.
IsOpen_TodoOnly(doc) == doc.status = "todo"

\* neq(status, "archived") and neq(status, "completed")
IsOpen(doc) == doc.status # "archived" /\ doc.status # "completed"

\* getUpcomingTasks
UpcomingTasks(table, t) ==
    LET scan == Take(SelectSeq(ByStatusAndDueDate(table),
                               LAMBDA i : IsOpen(table[i])),
                     UpcomingLimit)
    IN  SortByDue(table, SelectSeq(scan, LAMBDA i : IsDue(table[i], t)))

getUpcomingTasks ==
    Read("getUpcomingTasks", 0, NoArgs, Some(UpcomingTasks(tasks, now)))

\* getTaskStats as it would be if total counted every stored task.
TaskStats_CountsAll(table) ==
    LET todoTasks == Take(ByStatus(table, "todo"), StatsLimit)
        inProgressTasks == Take(ByStatus(table, "in_progress"), StatsLimit)
        completedTasks == Take(ByStatus(table, "completed"), StatsLimit)
    IN  [todo |-> Len(todoTasks),
         inProgress |-> Len(inProgressTasks),
         completed |-> Len(completedTasks),
         total |-> Len(Take(ByCreation(table), StatsLimit))]

\* getTaskStats
TaskStats(table) ==
    LET todoTasks == Take(ByStatus(table, "todo"), StatsLimit)
        inProgressTasks == Take(ByStatus(table, "in_progress"), StatsLimit)
        completedTasks == Take(ByStatus(table, "completed"), StatsLimit)
    IN  [todo |-> Len(todoTasks),
         inProgress |-> Len(inProgressTasks),
         completed |-> Len(completedTasks),
         total |-> Len(todoTasks) + Len(inProgressTasks) + Len(completedTasks)]

getTaskStats == Read("getTaskStats", 0, NoArgs, Some(TaskStats(tasks)))

----------------------------------------------------------------------------
(* Concurrent mutations of one task. A handler reads the document with      *)
(* ctx.db.get, and after the await writes it with ctx.db.patch; between the *)
(* two another call may run.                                                *)

NoTxns == [base |-> <<>>, calls |-> <<>>, log |-> <<>>]

\* What a handler patches, given the document it read
HandlerData(op, args, task, t) ==
    CASE op = "updateTask" -> UpdateData(task, args, t)
      [] op = "toggleTaskComplete" -> ToggleData(task, t)
      [] op = "deleteTask" -> ArchiveData

\* The handler up to its read: the call starts and reads the document.
Begin(op, id, args) ==
    /\ Len(txns.calls) < MaxCalls
    /\ txns.calls # <<>> => id = txns.calls[1].id
    /\ txns' = [base |-> IF txns.calls = <<>> THEN tasks ELSE txns.base,
                calls |-> Append(txns.calls,
                                 [op |-> op, id |-> id, args |-> args,
                                  read |-> DbGet(tasks, id),
                                  retried |-> FALSE]),
                log |-> txns.log]
    /\ UNCHANGED <<tasks, nextId, now, last, steps, dialog, mutation>>

Running == {k \in 1..Len(txns.calls) : \A l \in 1..Len(txns.log) : txns.log[l] # k}

\* The storage layer as it would be if it let every write through.
Validated_Always(call) == TRUE

\* The storage layer serializes the mutations of a record: a call commits when
\* the document it read is the one stored now, and runs again otherwise.
Validated(call) == DbGet(tasks, call.id) = call.read

Retry(k) ==
    /\ k \in Running
    /\ ~Validated(txns.calls[k])
    /\ txns' = [txns EXCEPT !.calls[k].read = DbGet(tasks, txns.calls[k].id),
                            !.calls[k].retried = TRUE]
    /\ UNCHANGED <<tasks, nextId, now, last, steps, dialog, mutation>>

\* The handler from its test of the document read to its return.
Commit(k) ==
    /\ k \in Running
    /\ Validated(txns.calls[k])
    /\ LET call == txns.calls[k]
       IN  IF call.read = None \/ ~Exists(call.id)
           THEN /\ last' = Call(call.op, call.id, call.args, NotFoundError, None)
                /\ UNCHANGED tasks
           ELSE /\ tasks' = DbPatch(call.id,
                                    HandlerData(call.op, call.args,
                                                Get(call.read), now))
                /\ last' = Call(call.op, call.id, call.args, NoError,
                                IF call.op = "deleteTask" THEN Some(Success)
                                ELSE DbGet(tasks', call.id))
    /\ txns' = [txns EXCEPT !.log = Append(@, k)]
    /\ UNCHANGED <<nextId, now, steps, dialog, mutation>>

----------------------------------------------------------------------------
(* CreateTaskDialog *)

\* The useState initial values. A date input holds "" or a day, kept here as
\* no day or the number of the day.
InitDialog ==
    [open |-> FALSE, title |-> <<>>, description |-> <<>>,
     priority |-> "medium", dueDate |-> None, isSubmitting |-> FALSE,
     toast |-> ""]

NoMutation == [state |-> "idle", input |-> <<>>, args |-> None]

\* new Date(dueDate).getTime(): a date without a time is midnight UTC.
DateTime(day) == day * 86400000

\* The arguments of the call as they would be with the title as typed.
SubmitArgs_Untrimmed(d) ==
    [title |-> d.title,
     description |-> IF Trim(d.description) = <<>> THEN None
                     ELSE Some(Trim(d.description)),
     status |-> Some("todo"),
     priority |-> Some(d.priority),
     dueDate |-> IF d.dueDate = None THEN None
                 ELSE Some(DateTime(Get(d.dueDate))),
     userId |-> None,
     tags |-> None]

\* The arguments handleSubmit passes to createTask
SubmitArgs(d) ==
    [title |-> Trim(d.title),
     description |-> IF Trim(d.description) = <<>> THEN None
                     ELSE Some(Trim(d.description)),
     status |-> Some("todo"),
     priority |-> Some(d.priority),
     dueDate |-> IF d.dueDate = None THEN None
                 ELSE Some(DateTime(Get(d.dueDate))),
     userId |-> None,
     tags |-> None]

\* A step of the dialog alone
Client(A) == A /\ UNCHANGED <<tasks, nextId, now, last, steps, txns>>

\* The Dialog's onOpenChange: the trigger opens it; Escape, the close button and
\* a click outside close it, also while a call is in flight.
onOpenChange(open) ==
    /\ dialog.open # open
    /\ dialog' = [dialog EXCEPT !.open = open]
    /\ UNCHANGED mutation

\* The Cancel button, disabled while isSubmitting
Cancel ==
    /\ dialog.open /\ ~dialog.isSubmitting
    /\ dialog' = [dialog EXCEPT !.open = FALSE]
    /\ UNCHANGED mutation

\* The inputs, which the open dialog shows and which are never disabled
setTitle(value) ==
    /\ dialog.open /\ dialog.title # value
    /\ dialog' = [dialog EXCEPT !.title = value]
    /\ UNCHANGED mutation

setDescription(value) ==
    /\ dialog.open /\ dialog.description # value
    /\ dialog' = [dialog EXCEPT !.description = value]
    /\ UNCHANGED mutation

setPriority(value) ==
    /\ dialog.open /\ dialog.priority # value
    /\ dialog' = [dialog EXCEPT !.priority = value]
    /\ UNCHANGED mutation

setDueDate(value) ==
    /\ dialog.open /\ dialog.dueDate # value
    /\ dialog' = [dialog EXCEPT !.dueDate = value]
    /\ UNCHANGED mutation

\* handleSubmit up to the await. The form is submitted by its submit button,
\* disabled while isSubmitting, and only with a title that is not empty (the
\* input is required).
handleSubmit ==
    /\ dialog.open /\ ~dialog.isSubmitting
    /\ dialog.title # <<>>
    /\ IF Len(Trim(dialog.title)) = 0
       THEN /\ dialog' = [dialog EXCEPT !.toast = "Please enter a task title"]
            /\ UNCHANGED mutation
       ELSE /\ dialog' = [dialog EXCEPT !.isSubmitting = TRUE]
            /\ mutation' = [state |-> "pending", input |-> dialog.title,
                            args |-> Some(SubmitArgs(dialog))]

\* handleSubmit after the await, when the call has succeeded
OnFulfilled(d) ==
    [d EXCEPT !.toast = "Task created successfully!",
              !.title = <<>>, !.description = <<>>, !.priority = "medium",
              !.dueDate = None, !.open = FALSE, !.isSubmitting = FALSE]

\* The catch as it would be without the finally.
OnRejected_NoFinally(d) == [d EXCEPT !.toast = "Failed to create task"]

\* handleSubmit after the await, when the call has failed
OnRejected(d) ==
    [d EXCEPT !.toast = "Failed to create task", !.isSubmitting = FALSE]

\* The call runs on the server and its promise settles with what it did.
createTaskSettled ==
    /\ mutation.state = "pending"
    /\ createTask(Get(mutation.args))
    /\ IF last'.error = NoError
       THEN /\ dialog' = OnFulfilled(dialog)
            /\ mutation' = [mutation EXCEPT !.state = "fulfilled"]
       ELSE /\ dialog' = OnRejected(dialog)
            /\ mutation' = [mutation EXCEPT !.state = "rejected"]
    /\ UNCHANGED <<steps, txns>>

\* The call does not reach the server, or the server fails: the promise is
\* rejected and the table is as it was.
createTaskRejected ==
    /\ mutation.state = "pending"
    /\ dialog' = OnRejected(dialog)
    /\ mutation' = [mutation EXCEPT !.state = "rejected"]

----------------------------------------------------------------------------
(* TaskList, over the rows that getAllTasks returned *)

\* taskCounts
TaskCounts(table, rows) ==
    [all |-> Len(rows),
     todo |-> Len(SelectSeq(rows, LAMBDA i : table[i].status = "todo")),
     in_progress |-> Len(SelectSeq(rows, LAMBDA i : table[i].status = "in_progress")),
     completed |-> Len(SelectSeq(rows, LAMBDA i : table[i].status = "completed"))]

\* The rows of a tab, before they are sorted
Filtered(table, rows, activeTab) ==
    IF activeTab # "all"
    THEN SelectSeq(rows, LAMBDA i : table[i].status = activeTab)
    ELSE rows

----------------------------------------------------------------------------
(* The clock *)

Tick ==
    /\ now < MaxTime
    /\ now' = now + 1
    /\ last' = Call("tick", 0, NoArgs, NoError, None)
    /\ UNCHANGED <<tasks, nextId>>

----------------------------------------------------------------------------

Init ==
    /\ tasks = [i \in {} |-> 0]
    /\ nextId = 1
    /\ now = 1
    /\ last = [op |-> "init", id |-> 0, args |-> NoArgs, before |-> tasks,
               error |-> NoError, result |-> None]
    /\ steps = 0
    /\ txns = NoTxns
    /\ dialog = InitDialog
    /\ mutation = NoMutation

\* A step outside the count of steps, and a step within it.
Free(A) == A /\ UNCHANGED <<steps, txns, dialog, mutation>>
Counted(A) ==
    /\ steps < MaxSteps
    /\ A
    /\ steps' = steps + 1
    /\ UNCHANGED <<txns, dialog, mutation>>

\* The status life cycle: calls that carry a plain title and at most a status.
StatusCreateArgs ==
    [title : {<<"a">>}, description : {None}, status : Opt(Statuses),
     priority : {None}, dueDate : {None}, userId : Opt(UserIds), tags : {None}]

StatusUpdateArgs ==
    [title : {None}, description : {None}, status : Opt(Statuses),
     priority : {None}, dueDate : {None}, tags : {None}]

Next ==
    \/ \E args \in StatusCreateArgs : Free(createTask(args))
    \/ \E id \in Ids, updates \in StatusUpdateArgs : Free(updateTask(id, updates))
    \/ \E id \in Ids : Free(deleteTask(id))
    \/ \E id \in Ids : Free(hardDeleteTask(id))
    \/ \E id \in Ids : Free(toggleTaskComplete(id))
    \/ \E id \in Ids : Free(getTask(id))
    \/ Free(getTaskStats)
    \/ Free(Tick)

Spec == Init /\ [][Next]_vars

\* Titles: the calls that write a title or remove a document, carrying any title
\* and nothing else.
TitleCreateArgs ==
    [title : Titles, description : {None}, status : {None},
     priority : {None}, dueDate : {None}, userId : Opt(UserIds), tags : {None}]

TitleUpdateArgs ==
    [title : Opt(Titles), description : {None}, status : {None},
     priority : {None}, dueDate : {None}, tags : {None}]

NextTitle ==
    \/ \E args \in TitleCreateArgs : Free(createTask(args))
    \/ \E id \in Ids, updates \in TitleUpdateArgs : Free(updateTask(id, updates))
    \/ \E id \in Ids : Free(hardDeleteTask(id))

SpecTitle == Init /\ [][NextTitle]_vars

\* Fields: runs of MaxSteps steps, a create carrying no optional field or all of
\* them, an update carrying any set of its keys.
FieldsCreateArgs ==
    {[title |-> <<"a">>, description |-> None, status |-> None,
      priority |-> None, dueDate |-> None, userId |-> None, tags |-> None],
     [title |-> <<"a">>, description |-> Some("d1"), status |-> Some("in_progress"),
      priority |-> Some("low"), dueDate |-> Some(1), userId |-> None,
      tags |-> Some(<<"t1">>)]}

FieldsUpdateArgs ==
    [title : Opt({<<"a", "a">>}), description : Opt({"d2"}),
     status : Opt({"todo", "completed"}),
     priority : Opt({"high"}), dueDate : Opt({2}), tags : Opt({<<"t2">>})]

NextFields ==
    \/ \E args \in FieldsCreateArgs : Counted(createTask(args))
    \/ \E id \in Ids, updates \in FieldsUpdateArgs : Counted(updateTask(id, updates))
    \/ \E id \in Ids : Counted(deleteTask(id))
    \/ \E id \in Ids : Counted(hardDeleteTask(id))
    \/ \E id \in Ids : Counted(toggleTaskComplete(id))
    \/ Counted(Tick)

SpecFields == Init /\ [][NextFields]_vars

\* Creation: calls that carry any status and any priority, or neither.
CreateCreateArgs ==
    [title : {<<"a">>}, description : {None}, status : Opt(Statuses),
     priority : Opt(Priorities), dueDate : {None}, userId : Opt(UserIds),
     tags : {None}]

NextCreate ==
    \/ \E args \in CreateCreateArgs : Free(createTask(args))
    \/ \E id \in Ids : Free(getTask(id))
    \/ \E id \in Ids : Free(hardDeleteTask(id))
    \/ \E priority \in Priorities : Free(getTasksByPriority(priority))
    \/ Free(Tick)

SpecCreate == Init /\ [][NextCreate]_vars

\* Due dates: calls that carry any status and any due date, or neither.
DueCreateArgs ==
    [title : {<<"a">>}, description : {None}, status : Opt(Statuses),
     priority : {None}, dueDate : Opt(DueDates), userId : Opt(UserIds),
     tags : {None}]

NextDue ==
    \/ \E args \in DueCreateArgs : Free(createTask(args))
    \/ Free(getUpcomingTasks)
    \/ Free(Tick)

SpecDue == Init /\ [][NextDue]_vars

\* Lists: a table that is empty, or that holds one document fewer than
\* getAllTasks returns at most, every other one todo and the rest in_progress,
\* every third one of high priority and the rest of medium priority, all
\* created at time 1; MaxTasks more are created. Pages are of MaxPage
\* documents when the table is the large one.
MaxPage == 30

BulkFill == AllTasksLimit - 1

BulkArgs(status) ==
    [title |-> <<"a">>, description |-> None, status |-> status,
     priority |-> None, dueDate |-> None, userId |-> None, tags |-> None]

BulkTask(i) ==
    NewTask([BulkArgs(IF i % 2 = 1 THEN None ELSE Some("in_progress"))
                EXCEPT !.priority = IF i % 3 = 0 THEN Some("high") ELSE None],
            1)

InitBulk ==
    /\ \E n \in {0, BulkFill} :
           /\ tasks = [i \in 1..n |-> BulkTask(i)]
           /\ nextId = n + 1
    /\ now = 1
    /\ last = [op |-> "init", id |-> 0, args |-> NoArgs, before |-> tasks,
               error |-> NoError, result |-> None]
    /\ steps = 0
    /\ txns = NoTxns
    /\ dialog = InitDialog
    /\ mutation = NoMutation

NextBulk ==
    \/ \E status \in {None, Some("in_progress")} :
           Free(createTaskUpTo(BulkArgs(status),
                               IF nextId > BulkFill THEN BulkFill + MaxTasks
                               ELSE MaxTasks))
    \/ Free(getAllTasks)
    \/ \E priority \in Priorities : Free(getTasksByPriority(priority))
    \/ \E status \in Statuses :
           \E opts \in PaginationOpts(status, IF nextId > BulkFill
                                               THEN {MaxPage}
                                               ELSE 1..MaxTasks) :
               Free(getTasksByStatus(status, opts))
    \/ Free(Tick)

SpecBulk == InitBulk /\ [][NextBulk]_vars

\* Due dates in a large table: the tables of InitBulk, whose documents have no
\* dueDate; MaxTasks more are created, todo or in_progress, with any dueDate or
\* none.
BulkDueArgs ==
    {[BulkArgs(status) EXCEPT !.dueDate = dueDate] :
        status \in {None, Some("in_progress")}, dueDate \in Opt(DueDates)}

NextBulkDue ==
    \/ \E args \in BulkDueArgs :
           Free(createTaskUpTo(args, IF nextId > BulkFill
                                     THEN BulkFill + MaxTasks ELSE MaxTasks))
    \/ Free(getUpcomingTasks)
    \/ Free(Tick)

SpecBulkDue == InitBulk /\ [][NextBulkDue]_vars

\* The dialog, with any title: the user opens and closes it, types a title
\* and a description, and submits.
DialogDescriptions == {<<>>, <<"a">>}

NextDialog ==
    \/ \E open \in BOOLEAN : Client(onOpenChange(open))
    \/ Client(Cancel)
    \/ \E value \in Titles : Client(setTitle(value))
    \/ \E value \in DialogDescriptions : Client(setDescription(value))
    \/ Client(handleSubmit)
    \/ createTaskSettled
    \/ Client(createTaskRejected)

SpecDialog == Init /\ [][NextDialog]_vars

\* The dialog, with every field: the title is empty, blank or plain, and a
\* call in flight settles in the end.
FairTitles == {<<>>, <<" ">>, <<"a">>}

NextFair ==
    \/ \E open \in BOOLEAN : Client(onOpenChange(open))
    \/ Client(Cancel)
    \/ \E value \in FairTitles : Client(setTitle(value))
    \/ \E value \in DialogDescriptions : Client(setDescription(value))
    \/ \E value \in {"medium", "high"} : Client(setPriority(value))
    \/ \E value \in Opt({1}) : Client(setDueDate(value))
    \/ Client(handleSubmit)
    \/ createTaskSettled
    \/ Client(createTaskRejected)

SpecFair ==
    /\ Init
    /\ [][NextFair]_vars
    /\ WF_vars(createTaskSettled \/ Client(createTaskRejected))

\* Archiving in a large table: the tables of InitBulk; MaxTasks todo tasks are
\* created, and the oldest task and the two around the limit of getAllTasks are
\* archived.
ArchiveIds == {1, BulkFill, BulkFill + 1}

NextArchive ==
    \/ Free(createTaskUpTo(BulkArgs(None),
                           IF nextId > BulkFill THEN BulkFill + MaxTasks
                           ELSE MaxTasks))
    \/ \E id \in ArchiveIds : Free(deleteTask(id))
    \/ Free(getAllTasks)
    \/ Free(getTaskStats)

SpecArchive == InitBulk /\ [][NextArchive]_vars

\* Concurrency: tasks are created, then MaxCalls mutations of one task run
\* concurrently, each an update of one field, a soft delete or a toggle.
ConcurrentCreateArgs ==
    [title : {<<"a">>}, description : {None}, status : Opt(Statuses),
     priority : {None}, dueDate : {None}, userId : Opt(UserIds), tags : {None}]

ConcurrentUpdateArgs ==
    {[NoArgs EXCEPT !.title = Some(<<"a", "a">>)],
     [NoArgs EXCEPT !.priority = Some("high")],
     [NoArgs EXCEPT !.priority = Some("low")],
     [NoArgs EXCEPT !.status = Some("completed")],
     [NoArgs EXCEPT !.status = Some("todo")]}

NextConcurrent ==
    \/ \E args \in ConcurrentCreateArgs :
           txns.calls = <<>> /\ Free(createTask(args))
    \/ \E id \in Ids, updates \in ConcurrentUpdateArgs :
           Begin("updateTask", id, updates)
    \/ \E id \in Ids : Begin("deleteTask", id, NoArgs)
    \/ \E id \in Ids : Begin("toggleTaskComplete", id, NoArgs)
    \/ \E k \in 1..MaxCalls : Retry(k)
    \/ \E k \in 1..MaxCalls : Commit(k)

SpecConcurrent == Init /\ [][NextConcurrent]_vars

\* Toggling: tasks created with no status, so that a task is completed only by
\* a toggle.
ToggleCreateArgs ==
    [title : {<<"a">>}, description : {None}, status : {None},
     priority : {None}, dueDate : {None}, userId : Opt(UserIds), tags : {None}]

NextToggle ==
    \/ \E args \in ToggleCreateArgs : Free(createTask(args))
    \/ \E id \in Ids : Free(toggleTaskComplete(id))
    \/ \E id \in Ids : Free(hardDeleteTask(id))
    \/ Free(Tick)

SpecToggle == Init /\ [][NextToggle]_vars

----------------------------------------------------------------------------
(* The call that was made last *)

Succeeded(op) == last.op = op /\ last.error = NoError
Before == last.before[last.id]
After == tasks[last.id]
OthersUnchanged ==
    /\ DOMAIN tasks = DOMAIN last.before
    /\ \A id \in DOMAIN tasks \ {last.id} : tasks[id] = last.before[id]

\* A title that is empty or holds whitespace only
IsBlank(title) == \A i \in 1..Len(title) : title[i] \in Whitespace

----------------------------------------------------------------------------
(* Claims *)

\* C1: every stored task has completedAt present if and only if its status is
\* completed. (createTask with status completed stores no completedAt, and
\* deleteTask archives a completed task without clearing it.)
C1_CompletedAtIffCompleted ==
    \A id \in DOMAIN tasks :
        tasks[id].completedAt # None <=> tasks[id].status = "completed"

\* C2: updateTask with status completed on a task that was not completed sets
\* completedAt to the time of the call, and on a task that was completed leaves
\* completedAt as it was; no stored completedAt is later than the clock.
C2_UpdateToCompleted ==
    /\ (Succeeded("updateTask") /\ last.args.status = Some("completed")) =>
            IF Before.status # "completed"
            THEN After.completedAt = Some(now)
            ELSE After.completedAt = Before.completedAt
    /\ \A id \in DOMAIN tasks : \A t \in tasks[id].completedAt : t <= now

C2_Witness ==
    /\ Succeeded("updateTask") /\ last.args.status = Some("completed")
    /\ Before.status = "in_progress" /\ Before.completedAt = None
    /\ After.creationTime = 1 /\ now = 2
    /\ After.status = "completed" /\ After.completedAt = Some(2)

\* C3: updateTask with status todo, in_progress or archived leaves completedAt
\* absent, whatever it was before.
C3_UpdateToNotCompleted ==
    (Succeeded("updateTask")
        /\ last.args.status \in {Some("todo"), Some("in_progress"), Some("archived")})
    => After.completedAt = None

C3_Witness ==
    /\ Succeeded("updateTask") /\ last.args.status = Some("todo")
    /\ Before.status = "completed" /\ Before.completedAt # None
    /\ After.status = "todo" /\ After.completedAt = None

\* C4: every stored title is non-empty after trimming. (updateTask stores the
\* title it is given without the validation createTask applies.)
C4_TitleNeverBlank ==
    \A id \in DOMAIN tasks : Len(Trim(tasks[id].title)) > 0

\* C5: createTask with an empty or whitespace-only title fails with the
\* validation error and leaves the table as it was.
C5_BlankTitleRejected ==
    (last.op = "createTask" /\ IsBlank(last.args.title))
    => (last.error = ValidationError /\ tasks = last.before)

C5_Witness ==
    /\ last.op = "createTask" /\ last.args.title = <<" ", " ">>
    /\ last.error = ValidationError
    /\ DOMAIN tasks = {1} /\ tasks = last.before

\* C6 as claimed: the created task's title is the title argument trimmed.
C6_StoredTitleIsTrimmed ==
    Succeeded("createTask") => After.title = Trim(last.args.title)

\* C6 as amended: the created task's title is the title argument as it was
\* given, surrounding whitespace included, and is not blank.
C6_StoredTitleIsArgument ==
    Succeeded("createTask") =>
        /\ last.id \in DOMAIN tasks /\ last.id \notin DOMAIN last.before
        /\ After.title = last.args.title
        /\ ~IsBlank(After.title)

C6_Witness ==
    /\ Succeeded("createTask") /\ last.args.title = <<" ", "a">>
    /\ After.title = <<" ", "a">> /\ After.title # Trim(last.args.title)

\* C7: updateTask, deleteTask and toggleTaskComplete on an id with no document
\* fail with the not-found error and leave the table as it was.
C7_MissingIdRejected ==
    (last.op \in {"updateTask", "deleteTask", "toggleTaskComplete"}
        /\ last.id \notin DOMAIN last.before)
    => (last.error = NotFoundError /\ tasks = last.before)

C7_Witness ==
    /\ last.op = "toggleTaskComplete" /\ last.id = 1
    /\ last.error = NotFoundError
    /\ DOMAIN tasks = {2} /\ tasks = last.before

\* C8: updateTask writes the fields its call carries and leaves every other
\* field of the task as it was, completedAt too when the call carries no
\* status; it changes no other task.
C8_UpdateFrame ==
    Succeeded("updateTask") =>
        /\ OthersUnchanged
        /\ After.title = IF last.args.title = None THEN Before.title
                         ELSE Get(last.args.title)
        /\ After.description = IF last.args.description = None THEN Before.description
                               ELSE last.args.description
        /\ After.status = IF last.args.status = None THEN Before.status
                          ELSE Get(last.args.status)
        /\ After.priority = IF last.args.priority = None THEN Before.priority
                            ELSE Get(last.args.priority)
        /\ After.dueDate = IF last.args.dueDate = None THEN Before.dueDate
                           ELSE last.args.dueDate
        /\ After.tags = IF last.args.tags = None THEN Before.tags
                        ELSE last.args.tags
        /\ last.args.status = None => After.completedAt = Before.completedAt
        /\ After.userId = Before.userId
        /\ After.creationTime = Before.creationTime

C8_Witness ==
    /\ Succeeded("updateTask") /\ last.id = 1 /\ DOMAIN tasks = {1, 2}
    /\ last.args.priority = Some("high") /\ last.args.dueDate = Some(2)
    /\ last.args.title = None /\ last.args.description = None
    /\ last.args.status = None /\ last.args.tags = None
    /\ Before.description = Some("d1") /\ After.description = Some("d1")
    /\ Before.priority = "low" /\ After.priority = "high"
    /\ Before.dueDate = Some(1) /\ After.dueDate = Some(2)
    /\ After.tags = Some(<<"t1">>)

\* C9: deleteTask sets the status to archived and leaves every other field of
\* the task, completedAt included, and every other task as it was.
C9_ArchiveFrame ==
    Succeeded("deleteTask") =>
        /\ OthersUnchanged
        /\ After = [Before EXCEPT !.status = "archived"]

C9_Witness ==
    /\ Succeeded("deleteTask")
    /\ Before.status = "completed" /\ Before.completedAt # None
    /\ Before.description = Some("d1") /\ Before.priority = "low"
    /\ After.status = "archived" /\ After.completedAt = Before.completedAt
    /\ After.description = Some("d1") /\ After.priority = "low"

\* C10: no call but hardDeleteTask removes a document: every document the call
\* found is still in the table, so the number of documents has not gone down.
C10_OnlyHardDeleteRemoves ==
    last.op # "hardDeleteTask" =>
        /\ \A id \in DOMAIN last.before : id \in DOMAIN tasks
        /\ Cardinality(DOMAIN tasks) >= Cardinality(DOMAIN last.before)

C10_Witness ==
    /\ Succeeded("deleteTask") /\ DOMAIN last.before = {1, 2}
    /\ DOMAIN tasks = {1, 2} /\ After.status = "archived"

C12_ToggleFlips ==
    Succeeded("toggleTaskComplete") =>
        /\ OthersUnchanged
        /\ After = IF Before.status = "completed"
                   THEN [Before EXCEPT !.status = "todo", !.completedAt = None]
                   ELSE [Before EXCEPT !.status = "completed",
                                       !.completedAt = Some(now)]
        /\ last.result = Some(After)

C12_Witness ==
    /\ Succeeded("toggleTaskComplete")
    /\ Before.status = "in_progress" /\ Before.description = Some("d1")
    /\ Before.creationTime = 1 /\ now = 2
    /\ After.status = "completed" /\ After.completedAt = Some(2)
    /\ After.description = Some("d1") /\ After.priority = "low"

\* C13: when a successful toggleTaskComplete of a todo task is followed at once
\* by a second successful toggleTaskComplete of the same task, the task is
\* completed with completedAt present between the two calls, and after the
\* second it is todo with no completedAt, the table being again the one the
\* first call found.
C13_ToggleTwice ==
    [][(/\ Succeeded("toggleTaskComplete")
        /\ Before.status = "todo"
        /\ last'.op = "toggleTaskComplete"
        /\ last'.error = NoError
        /\ last'.id = last.id)
       => /\ After.status = "completed"
          /\ After.completedAt # None
          /\ tasks'[last.id].status = "todo"
          /\ tasks'[last.id].completedAt = None
          /\ tasks' = last.before]_vars

\* Under SpecToggle a task is created todo and is completed by a toggle only,
\* so the call below is the second of two toggles of a todo task.
C13_Witness ==
    /\ Succeeded("toggleTaskComplete")
    /\ Before.status = "completed" /\ Before.completedAt # None
    /\ After.status = "todo" /\ After.completedAt = None

\* C14: a successful createTask stores a new document whose status is the one
\* the call carries, or todo when it carries none, whose priority is the one
\* the call carries, or medium when it carries none, and whose completedAt is
\* absent whatever the status; it changes no other document, and it returns
\* the document that ctx.db.get reads under the new id.
C14_CreateDefaults ==
    Succeeded("createTask") =>
        /\ last.id \notin DOMAIN last.before
        /\ DOMAIN tasks = DOMAIN last.before \cup {last.id}
        /\ \A id \in DOMAIN last.before : tasks[id] = last.before[id]
        /\ After.status = IF last.args.status = None THEN "todo"
                          ELSE Get(last.args.status)
        /\ After.priority = IF last.args.priority = None THEN "medium"
                            ELSE Get(last.args.priority)
        /\ After.completedAt = None
        /\ last.result = Some(After)
        /\ last.result = DbGet(tasks, last.id)

C14_Witness ==
    /\ Succeeded("createTask")
    /\ last.args.status = Some("completed") /\ last.args.priority = None
    /\ After.status = "completed" /\ After.priority = "medium"
    /\ After.completedAt = None
    /\ last.result = Some(After)
    /\ \E id \in DOMAIN last.before :
            tasks[id].status = "todo" /\ tasks[id].priority = "high"

\* C15: getTask never throws; on an id that is not stored, whether it was never
\* created or was removed by hardDeleteTask, it returns null, where updateTask,
\* deleteTask and toggleTaskComplete throw NotFoundError; on a stored id it
\* returns that document; it changes nothing.
C15_GetReturnsNull ==
    /\ last.op = "getTask" =>
            /\ last.error = NoError
            /\ tasks = last.before
            /\ last.result = IF last.id \in DOMAIN tasks
                             THEN Some(tasks[last.id]) ELSE None
    /\ (/\ last.op \in {"updateTask", "deleteTask", "toggleTaskComplete"}
        /\ last.id \notin DOMAIN last.before) => last.error = NotFoundError

C15_Witness ==
    /\ Succeeded("getTask")
    /\ last.id < nextId /\ last.id \notin DOMAIN tasks
    /\ last.result = None
    /\ tasks # <<>>

\* The number of stored tasks of a status
CountOf(status) == Cardinality({i \in DOMAIN tasks : tasks[i].status = status})

\* C18: when at most StatsLimit tasks are stored under each of todo,
\* in_progress and completed, getTaskStats returns for each the number of stored
\* tasks of that status, and a total that is the sum of the three, which
\* leaves the archived tasks out.
C18_StatsCount ==
    (/\ last.op = "getTaskStats"
     /\ \A status \in {"todo", "in_progress", "completed"} :
            CountOf(status) <= StatsLimit)
    => /\ last.error = NoError
       /\ Get(last.result).todo = CountOf("todo")
       /\ Get(last.result).inProgress = CountOf("in_progress")
       /\ Get(last.result).completed = CountOf("completed")
       /\ Get(last.result).total =
              CountOf("todo") + CountOf("in_progress") + CountOf("completed")
       /\ Get(last.result).total =
              Cardinality(DOMAIN tasks) - CountOf("archived")

C18_Witness ==
    /\ Succeeded("getTaskStats")
    /\ CountOf("archived") = 1 /\ CountOf("completed") = 1
    /\ Get(last.result).completed = 1
    /\ Get(last.result).total = 1

\* The documents a list query returned, by _id
Rows == Get(last.result)

\* The stored tasks that getUpcomingTasks scans: neither completed nor archived
Open == {i \in DOMAIN tasks : tasks[i].status \in {"todo", "in_progress"}}

\* C16: getUpcomingTasks returns stored tasks only, none of them completed or
\* archived, each with a dueDate that is present and not before the time of
\* the call, in ascending order of dueDate; when at most UpcomingLimit todo and
\* in_progress tasks are stored, a todo or in_progress task whose dueDate is
\* the time of the call is among them.
C16_UpcomingSound ==
    last.op = "getUpcomingTasks" =>
        /\ last.error = NoError
        /\ \A k \in 1..Len(Rows) :
               /\ Rows[k] \in DOMAIN tasks
               /\ tasks[Rows[k]].status \notin {"completed", "archived"}
               /\ tasks[Rows[k]].dueDate # None
               /\ Get(tasks[Rows[k]].dueDate) >= now
        /\ \A k, l \in 1..Len(Rows) :
               k < l => Get(tasks[Rows[k]].dueDate) <= Get(tasks[Rows[l]].dueDate)
        /\ Cardinality(Open) <= UpcomingLimit =>
               \A i \in Open :
                   tasks[i].dueDate = Some(now) =>
                       \E k \in 1..Len(Rows) : Rows[k] = i

C16_Witness ==
    /\ Succeeded("getUpcomingTasks")
    /\ now = 2
    /\ Len(Rows) = 1
    /\ tasks[Rows[1]].dueDate = Some(2)
    /\ \E i \in DOMAIN tasks :
           tasks[i].status = "completed" /\ tasks[i].dueDate = Some(2)

\* C17: when at most UpcomingLimit todo and in_progress tasks are stored,
\* getUpcomingTasks returns every stored todo or in_progress task whose dueDate
\* is present and not before the time of the call, each exactly once.
C17_UpcomingComplete ==
    (last.op = "getUpcomingTasks" /\ Cardinality(Open) <= UpcomingLimit) =>
        \A i \in Open :
            (tasks[i].dueDate # None /\ Get(tasks[i].dueDate) >= now) =>
                Cardinality({k \in 1..Len(Rows) : Rows[k] = i}) = 1

C17_Witness ==
    /\ Succeeded("getUpcomingTasks")
    /\ now = 1
    /\ Len(Rows) = 2
    /\ tasks[Rows[1]].status = "todo" /\ tasks[Rows[2]].status = "in_progress"
    /\ tasks[Rows[1]].dueDate = Some(1) /\ tasks[Rows[2]].dueDate = Some(2)

\* A sequence of documents: those it holds, that it holds none twice and runs
\* from the newest creationTime to the oldest, and that no document of S left
\* out of it is newer than one it holds.
Range(rows) == {rows[k] : k \in 1..Len(rows)}

NewestFirst(rows) ==
    \A k, l \in 1..Len(rows) :
        k < l => /\ rows[k] # rows[l]
                 /\ tasks[rows[k]].creationTime >= tasks[rows[l]].creationTime

MostRecentOf(rows, S) ==
    /\ Range(rows) \subseteq S
    /\ \A i \in S \ Range(rows) :
           \A k \in 1..Len(rows) :
               tasks[i].creationTime <= tasks[rows[k]].creationTime

Min(a, b) == IF a < b THEN a ELSE b

\* C19: getAllTasks never throws and changes nothing; it returns stored tasks
\* from the newest creationTime to the oldest, as many as are stored and
\* AllTasksLimit at most, none left out being newer than one returned; with
\* nothing stored it returns the empty list.
C19_AllNewestFirst ==
    last.op = "getAllTasks" =>
        /\ last.error = NoError
        /\ tasks = last.before
        /\ Len(Rows) = Min(AllTasksLimit, Cardinality(DOMAIN tasks))
        /\ NewestFirst(Rows)
        /\ MostRecentOf(Rows, DOMAIN tasks)
        /\ DOMAIN tasks = {} => Rows = <<>>

C19_Witness ==
    /\ Succeeded("getAllTasks")
    /\ Cardinality(DOMAIN tasks) > AllTasksLimit
    /\ Len(Rows) = AllTasksLimit
    /\ tasks[Rows[1]].creationTime = 2
    /\ tasks[Rows[Len(Rows)]].creationTime = 1
    /\ 1 \in DOMAIN tasks \ Range(Rows)

\* The stored tasks of a status
Matching(status) == {i \in DOMAIN tasks : tasks[i].status = status}

\* C20: getTasksByStatus without paginationOpts returns tasks of the status
\* asked for only, from the newest creationTime to the oldest, as many as are
\* stored with that status and StatusLimit at most, none left out being newer
\* than one returned; with paginationOpts it returns a page of at most numItems
\* tasks of that status in the same order, with a continuation cursor, the
\* page of a null cursor being the newest ones.
C20_ByStatusNewestFirst ==
    last.op = "getTasksByStatus" =>
        /\ last.error = NoError
        /\ tasks = last.before
        /\ IF last.args.paginationOpts = None
           THEN /\ Len(Rows) =
                       Min(StatusLimit, CountOf(last.args.status))
                /\ NewestFirst(Rows)
                /\ MostRecentOf(Rows, Matching(last.args.status))
           ELSE /\ Len(Rows.page) <= Get(last.args.paginationOpts).numItems
                /\ NewestFirst(Rows.page)
                /\ Range(Rows.page) \subseteq Matching(last.args.status)
                /\ "continueCursor" \in DOMAIN Rows
                /\ Get(last.args.paginationOpts).cursor = None =>
                       /\ Len(Rows.page) =
                              Min(Get(last.args.paginationOpts).numItems,
                                  CountOf(last.args.status))
                       /\ MostRecentOf(Rows.page, Matching(last.args.status))

C20_Witness ==
    /\ Succeeded("getTasksByStatus")
    /\ last.args.status = "todo" /\ last.args.paginationOpts = None
    /\ CountOf("todo") > StatusLimit
    /\ CountOf("in_progress") > 0
    /\ Len(Rows) = StatusLimit
    /\ tasks[Rows[1]].creationTime = 2
    /\ tasks[Rows[Len(Rows)]].creationTime = 1

\* The stored tasks of a priority
OfPriority(priority) ==
    {i \in DOMAIN tasks : tasks[i].priority = priority}

\* C21: getTasksByPriority returns tasks of the priority asked for only, from
\* the newest creationTime to the oldest, as many as are stored with that
\* priority and PriorityLimit at most, none left out being newer than one
\* returned; when at most PriorityLimit are stored with that priority it
\* returns exactly those.
C21_ByPriorityExact ==
    last.op = "getTasksByPriority" =>
        /\ last.error = NoError
        /\ tasks = last.before
        /\ Len(Rows) =
               Min(PriorityLimit, Cardinality(OfPriority(last.args.priority)))
        /\ NewestFirst(Rows)
        /\ MostRecentOf(Rows, OfPriority(last.args.priority))
        /\ Cardinality(OfPriority(last.args.priority)) <= PriorityLimit =>
               Range(Rows) = OfPriority(last.args.priority)

C21_Witness ==
    /\ Succeeded("getTasksByPriority")
    /\ last.args.priority = "high"
    /\ Len(Rows) > MaxPage
    /\ Range(Rows) = OfPriority("high")
    /\ Cardinality(OfPriority("medium")) > PriorityLimit

\* An updateTask call that carries a status and nothing else
StatusOnly(status) ==
    [title |-> None, description |-> None, status |-> Some(status),
     priority |-> None, dueDate |-> None, tags |-> None]

\* C22: in every state, for every stored task, whatever its status, and every
\* status t, one updateTask call that carries status t is possible, succeeds
\* and leaves the task in status t; and for an archived task one
\* toggleTaskComplete call is possible, succeeds and leaves it not archived.
C22_NoForbiddenEdge ==
    \A id \in DOMAIN tasks :
        /\ \A t \in Statuses :
               ENABLED (/\ Free(updateTask(id, StatusOnly(t)))
                        /\ last'.error = NoError
                        /\ tasks'[id].status = t)
        /\ tasks[id].status = "archived" =>
               ENABLED (/\ Free(toggleTaskComplete(id))
                        /\ last'.error = NoError
                        /\ tasks'[id].status # "archived")

C22_Witness ==
    /\ Succeeded("updateTask")
    /\ Before.status = "archived"
    /\ last.args = StatusOnly("in_progress")
    /\ After.status = "in_progress"
    /\ \E id \in DOMAIN tasks : tasks[id].status = "archived"

\* The calls that committed, in the order in which they did, and the table that
\* running them one at a time in that order makes of a table.
Committed == [l \in 1..Len(txns.log) |-> txns.calls[txns.log[l]]]

ApplyCall(table, call, t) ==
    IF call.id \notin DOMAIN table THEN table
    ELSE [table EXCEPT
             ![call.id] = Patched(@, HandlerData(call.op, call.args, @, t))]

RECURSIVE Serial(_, _, _)
Serial(table, calls, t) ==
    IF calls = <<>> THEN table
    ELSE Serial(ApplyCall(table, Head(calls), t), Tail(calls), t)

\* C23: while mutations of one task run concurrently, the table is at every
\* moment the one that the committed calls, run one at a time in the order of
\* their commits, make of the table they started from; two toggles of a todo
\* task that have both committed leave it todo with no completedAt; and after
\* a committed updateTask or toggleTaskComplete call that changed the status,
\* the task is completed if and only if its completedAt is present.
C23_Serialized ==
    txns.calls # <<>> =>
        /\ tasks = Serial(txns.base, Committed, now)
        /\ (/\ Len(Committed) = 2
            /\ \A l \in 1..2 : Committed[l].op = "toggleTaskComplete"
            /\ Committed[1].id \in DOMAIN txns.base
            /\ txns.base[Committed[1].id].status = "todo")
           => /\ tasks[Committed[1].id].status = "todo"
              /\ tasks[Committed[1].id].completedAt = None
        /\ (/\ Committed # <<>>
            /\ last.error = NoError
            /\ last.op \in {"toggleTaskComplete", "updateTask"}
            /\ After.status # Before.status)
           => (After.status = "completed" <=> After.completedAt # None)

C23_Witness ==
    /\ Len(Committed) = 2 /\ Running = {}
    /\ \A l \in 1..2 : Committed[l].op = "toggleTaskComplete"
    /\ Committed[2].retried
    /\ txns.base[Committed[1].id].status = "todo"
    /\ tasks[Committed[1].id].status = "todo"
    /\ tasks[Committed[1].id].completedAt = None

\* The committed updateTask calls that carry a field
Carrying(field) ==
    {l \in 1..Len(Committed) :
        Committed[l].op = "updateTask" /\ Committed[l].args[field] # None}

Latest(S) == CHOOSE l \in S : \A m \in S : m <= l

\* C24: after concurrent mutations of a stored task, its title and its
\* priority are each the value carried by the last committed updateTask call
\* that carries the field, and the value the task had before the calls when
\* none carries it: calls that carry different fields both take effect, in
\* either order, and of calls that carry the same field the last one wins.
C24_LastWriterWins ==
    (txns.calls # <<>> /\ txns.calls[1].id \in DOMAIN txns.base) =>
        \A field \in {"title", "priority"} :
            tasks[txns.calls[1].id][field] =
                IF Carrying(field) = {}
                THEN txns.base[txns.calls[1].id][field]
                ELSE Get(Committed[Latest(Carrying(field))].args[field])

C24_Witness ==
    /\ Len(Committed) = 2 /\ Running = {}
    /\ Committed[1].args = [NoArgs EXCEPT !.priority = Some("high")]
    /\ Committed[2].args = [NoArgs EXCEPT !.title = Some(<<"a", "a">>)]
    /\ Committed[2].retried
    /\ tasks[Committed[1].id].title = <<"a", "a">>
    /\ tasks[Committed[1].id].priority = "high"

\* C25: in every reachable state a stored task whose status is todo or
\* in_progress has no completedAt: completedAt is present on completed and
\* archived tasks only.
C25_OpenHasNoCompletedAt ==
    \A id \in DOMAIN tasks :
        tasks[id].status \in {"todo", "in_progress"} =>
            tasks[id].completedAt = None

C25_Witness ==
    /\ Succeeded("updateTask")
    /\ Before.status = "archived" /\ Before.completedAt # None
    /\ After.status = "in_progress" /\ After.completedAt = None
    /\ \E id \in DOMAIN tasks :
           tasks[id].status = "archived" /\ tasks[id].completedAt # None

\* C26: when exactly two calls have committed on a stored task and both are
\* toggleTaskComplete, the task has the status it had before them if and only
\* if that status was todo or completed; a task that was in_progress or
\* archived is todo with no completedAt.
C26_ToggleTwiceRestores ==
    (/\ Len(Committed) = 2
     /\ \A l \in 1..2 : Committed[l].op = "toggleTaskComplete"
     /\ Committed[1].id \in DOMAIN txns.base)
    => LET original == txns.base[Committed[1].id].status
           final == tasks[Committed[1].id]
       IN  /\ final.status = original <=> original \in {"todo", "completed"}
           /\ original \in {"in_progress", "archived"} =>
                  final.status = "todo" /\ final.completedAt = None

\* Neither call ran again, so the second started after the first had committed.
C26_Witness ==
    /\ Len(Committed) = 2 /\ Running = {}
    /\ \A l \in 1..2 :
           Committed[l].op = "toggleTaskComplete" /\ ~Committed[l].retried
    /\ Committed[1].id \in DOMAIN txns.base
    /\ txns.base[Committed[1].id].status = "archived"
    /\ tasks[Committed[1].id].status = "todo"
    /\ tasks[Committed[1].id].completedAt = None

\* C27: getUpcomingTasks returns every stored todo or in_progress task whose
\* dueDate is present and not before the time of the call, however many todo
\* and in_progress tasks are stored.
C27_UpcomingCompleteAnyPopulation ==
    last.op = "getUpcomingTasks" =>
        \A i \in Open :
            (tasks[i].dueDate # None /\ Get(tasks[i].dueDate) >= now) =>
                \E k \in 1..Len(Rows) : Rows[k] = i

\* C28: every createTask call the dialog has issued was submitted with a title
\* that is not blank and carries that title trimmed and status todo; no
\* createTask call the server has run carried a blank title; the task a
\* fulfilled call stored has the trimmed title, status todo and no completedAt,
\* as has every task stored when the dialog alone creates tasks.
C28_DialogCreates ==
    /\ mutation.state # "idle" =>
           /\ ~IsBlank(mutation.input)
           /\ Get(mutation.args).title = Trim(mutation.input)
           /\ Len(Get(mutation.args).title) > 0
           /\ Get(mutation.args).status = Some("todo")
    /\ last.op = "createTask" =>
           /\ last.error = NoError
           /\ ~IsBlank(last.args.title)
           /\ last.args.status = Some("todo")
    /\ mutation.state = "fulfilled" =>
           /\ Succeeded("createTask")
           /\ last.args = Get(mutation.args)
           /\ After.title = Trim(mutation.input)
           /\ After.status = "todo"
           /\ After.completedAt = None
    /\ \A id \in DOMAIN tasks :
           /\ ~IsBlank(tasks[id].title)
           /\ tasks[id].status = "todo"
           /\ tasks[id].completedAt = None

C28_Witness ==
    /\ mutation.state = "fulfilled"
    /\ mutation.input = <<" ", "a">>
    /\ Succeeded("createTask")
    /\ After.title = <<"a">>
    /\ After.status = "todo"
    /\ dialog.toast = "Task created successfully!"

\* C29: in the dialog, isSubmitting is true exactly while the createTask call
\* is in flight, and a dialog that is submitting stops submitting in the end;
\* the step in which the call is fulfilled leaves title, description, priority
\* and dueDate at their defaults and the dialog closed; the step in which it is
\* rejected changes none of the four fields and leaves the dialog open or
\* closed as it was.
C29_Submitting ==
    /\ [](dialog.isSubmitting <=> mutation.state = "pending")
    /\ (dialog.isSubmitting ~> ~dialog.isSubmitting)
    /\ [][(mutation.state = "pending" /\ mutation'.state = "fulfilled") =>
              /\ dialog'.title = <<>> /\ dialog'.description = <<>>
              /\ dialog'.priority = "medium" /\ dialog'.dueDate = None
              /\ ~dialog'.open /\ ~dialog'.isSubmitting]_vars
    /\ [][(mutation.state = "pending" /\ mutation'.state = "rejected") =>
              /\ dialog'.title = dialog.title
              /\ dialog'.description = dialog.description
              /\ dialog'.priority = dialog.priority
              /\ dialog'.dueDate = dialog.dueDate
              /\ dialog'.open = dialog.open
              /\ ~dialog'.isSubmitting]_vars

\* A second call has failed after a first one succeeded: the dialog is open
\* with what was entered.
C29_Witness ==
    /\ mutation.state = "rejected"
    /\ DOMAIN tasks = {1}
    /\ ~dialog.isSubmitting
    /\ dialog.open
    /\ dialog.title = <<"a">> /\ dialog.description = <<"a">>
    /\ dialog.priority = "high" /\ dialog.dueDate = Some(1)
    /\ dialog.toast = "Failed to create task"

\* C30: when at most AllTasksLimit tasks are stored, the All count of TaskList
\* over the rows of getAllTasks less the total of getTaskStats is the number of
\* archived tasks, the two are equal exactly when no task is archived, and
\* every archived task is among the rows of the All tab.
C30_AllExceedsTotal ==
    Cardinality(DOMAIN tasks) <= AllTasksLimit =>
        LET rows == AllTasks(tasks)
            all == TaskCounts(tasks, rows).all
            total == TaskStats(tasks).total
        IN  /\ all - total = CountOf("archived")
            /\ all = total <=> CountOf("archived") = 0
            /\ \A id \in DOMAIN tasks :
                   tasks[id].status = "archived" =>
                       id \in Range(Filtered(tasks, rows, "all"))

C30_Witness ==
    /\ Succeeded("deleteTask")
    /\ Cardinality(DOMAIN tasks) = AllTasksLimit
    /\ CountOf("archived") = 2
    /\ TaskCounts(tasks, AllTasks(tasks)).all = AllTasksLimit
    /\ TaskStats(tasks).total = AllTasksLimit - 2
    /\ last.id \in Range(Filtered(tasks, AllTasks(tasks), "all"))

====
